---------------------------- MODULE Spec2Model ----------------------------
(***************************************************************************)
(* A model of the LDA guide server: the greedy brick tiling of a colour    *)
(* grid (app/image_analysis.py), the token-addressed analysis store        *)
(* (app/services/analysis_store.py) and the section/step planner           *)
(* (app/routers/guide.py, app/services/step_generator.py).                 *)
(*                                                                         *)
(* Python strings are modelled as tuples of one-character strings, so that *)
(* formatting (f"{w}x{h}", "#RRGGBB") and parsing (the WxH regex, strip,   *)
(* lower, upper, split) are computed character by character.               *)
(***************************************************************************)
EXTENDS Integers, Sequences, FiniteSets, TLC

VARIABLES
    \* ---- tiling run (analyze_image_to_guide) ----
    brick_types,    \* requested identifiers, a sequence of strings (<<>> = None/empty)
    allow_rotate,   \* the rotate flag
    img_np,         \* the resized, quantized image: rows of RGB triples
    candidates,     \* build_candidates(normalize_brick_types(brick_types), allow_rotate)
    colors_grid,    \* rows of hex strings
    occ,            \* occupancy mask, rows of booleans
    bricks,         \* placements emitted so far
    pc,             \* "idle" | "input" | "scan" | "done"
    sy, sx,         \* position of the row-major scan (0-based, as in the code)
    run,            \* 1 for the first run over the inputs, 2 for the repeated run
    firstBricks,    \* the placements of the first run, kept for comparison
    \* ---- the shared analysis store (AnalysisStore, _analysis_store) ----
    store,          \* _store: token -> [payload, expires_at]
    now,            \* the last value time.time() returned
    issued,         \* history: every token put returned -> the record stored under it,
                    \* whether a get has returned it, and whether a get of it has failed
    lastGet,        \* history: the last get call, its category and what it gave
    lastPut,        \* history: the last put call, its arguments and clock reading,
                    \* and the number of put calls made so far
    \* ---- phase 2 (build_steps) ----
    resp,           \* the last response of build_steps
    \* ---- direct calls of the step generator ----
    gen             \* the last call of generate_steps_by_rows and what it returned

tilingVars == <<brick_types, allow_rotate, img_np, candidates, colors_grid, occ,
                bricks, pc, sy, sx, run, firstBricks>>

storeVars == <<store, now, issued, lastGet, lastPut>>

planVars == <<resp, gen>>

vars == <<tilingVars, storeVars, planVars>>

-----------------------------------------------------------------------------
(* Bounds of the model *)

MaxGridW == 3     \* widest colour grid tiled
MaxGridH == 2     \* tallest colour grid tiled
MaxCells == 6     \* most cells of a colour grid tiled
MaxPuts == 2      \* most put calls on the store
MaxEarly == 0     \* the clock is sampled at 0..MaxEarly and at MinTTL..MaxNow
MaxNow == 61      \* the clock stops here
MaxDrift == 1     \* most the clock advances between two reads inside one call
MaxPlanW == 6     \* widest grid of the two-phase flow
MaxPlanH == 4     \* tallest grid of the two-phase flow

-----------------------------------------------------------------------------
(* Strings *)

Digits == <<"0", "1", "2", "3", "4", "5", "6", "7", "8", "9">>
HexDigits == <<"0", "1", "2", "3", "4", "5", "6", "7", "8", "9",
               "A", "B", "C", "D", "E", "F">>
\* the cased letters of the model's alphabet
UpperLetters == <<"A", "B", "C", "D", "E", "F", "X">>
LowerLetters == <<"a", "b", "c", "d", "e", "f", "x">>

IsDigit(c) == \E i \in 1..10 : Digits[i] = c
DigitVal(c) == (CHOOSE i \in 1..10 : Digits[i] = c) - 1
IsSpace(c) == c = " "

LowerChar(c) ==
    IF \E i \in 1..Len(UpperLetters) : UpperLetters[i] = c
    THEN LowerLetters[CHOOSE i \in 1..Len(UpperLetters) : UpperLetters[i] = c]
    ELSE c
UpperChar(c) ==
    IF \E i \in 1..Len(LowerLetters) : LowerLetters[i] = c
    THEN UpperLetters[CHOOSE i \in 1..Len(LowerLetters) : LowerLetters[i] = c]
    ELSE c

\* str.lower(), str.upper()
Lower(s) == [i \in 1..Len(s) |-> LowerChar(s[i])]
Upper(s) == [i \in 1..Len(s) |-> UpperChar(s[i])]

\* str.strip()
RECURSIVE LStrip(_)
LStrip(s) == IF s # <<>> /\ IsSpace(s[1]) THEN LStrip(Tail(s)) ELSE s
RECURSIVE RStrip(_)
RStrip(s) ==
    IF s # <<>> /\ IsSpace(s[Len(s)]) THEN RStrip(SubSeq(s, 1, Len(s) - 1)) ELSE s
Strip(s) == RStrip(LStrip(s))

\* str(n) for n >= 0, and int(s) for a string of digits
RECURSIVE DecStr(_)
DecStr(n) ==
    IF n < 10 THEN <<Digits[n + 1]>>
    ELSE DecStr(n \div 10) \o <<Digits[(n % 10) + 1]>>
RECURSIVE DecVal(_)
DecVal(s) ==
    IF s = <<>> THEN 0
    ELSE 10 * DecVal(SubSeq(s, 1, Len(s) - 1)) + DigitVal(s[Len(s)])

Max(a, b) == IF a >= b THEN a ELSE b
Min(a, b) == IF a <= b THEN a ELSE b

\* f"{w}x{h}"
TypeStr(w, h) == DecStr(w) \o <<"x">> \o DecStr(h)

\* f"#{r:02X}{g:02X}{b:02X}"
Hex2(n) == <<HexDigits[(n \div 16) + 1], HexDigits[(n % 16) + 1]>>
rgb_to_hex(rgb) == <<"#">> \o Hex2(rgb[1]) \o Hex2(rgb[2]) \o Hex2(rgb[3])

-----------------------------------------------------------------------------
(* Shape identifiers and candidates (app/image_analysis.py) *)

MaxDim == 64

\* _BRICK_RE = ^(?P<w>\d+)x(?P<h>\d+)$ : the position of the separating "x"
\* of a match, or 0 when the string does not match
BrickReMatch(s) ==
    LET ks == {k \in 2..(Len(s) - 1) :
                 /\ s[k] = "x"
                 /\ \A i \in 1..(k - 1) : IsDigit(s[i])
                 /\ \A i \in (k + 1)..Len(s) : IsDigit(s[i])}
    IN IF ks = {} THEN 0 ELSE CHOOSE k \in ks : TRUE

parse_brick_type_dims(brick_type) ==
    IF brick_type = <<>> THEN <<1, 1>>
    ELSE LET s == Lower(Strip(brick_type))
             k == BrickReMatch(s)
         IN IF k = 0 THEN <<1, 1>>
            ELSE LET w == DecVal(SubSeq(s, 1, k - 1))
                     h == DecVal(SubSeq(s, k + 1, Len(s)))
                 IN <<Max(1, Min(MaxDim, w)), Max(1, Min(MaxDim, h))>>

Contains(seq, e) == \E i \in 1..Len(seq) : seq[i] = e

RECURSIVE NormalizeLoop(_, _)
NormalizeLoop(rest, cleaned) ==
    IF rest = <<>> THEN cleaned
    ELSE LET s == Lower(Strip(Head(rest))) IN
         IF s = <<>> THEN NormalizeLoop(Tail(rest), cleaned)
         ELSE LET d == parse_brick_type_dims(s)
                  key == TypeStr(d[1], d[2])
              IN NormalizeLoop(Tail(rest),
                     IF Contains(cleaned, key) THEN cleaned ELSE Append(cleaned, key))

normalize_brick_types_no_fallback(bts) ==
    IF bts = <<>> THEN << TypeStr(1, 1) >> ELSE NormalizeLoop(bts, <<>>)

normalize_brick_types(bts) ==
    IF bts = <<>> THEN << TypeStr(1, 1) >>
    ELSE LET cleaned == NormalizeLoop(bts, <<>>) IN
         IF Contains(cleaned, TypeStr(1, 1)) THEN cleaned
         ELSE Append(cleaned, TypeStr(1, 1))

Cand(w, h) == [type |-> TypeStr(w, h), w |-> w, h |-> h, area |-> w * h]

HasDims(out, w, h) == \E i \in 1..Len(out) : out[i].w = w /\ out[i].h = h

\* the key of out.sort(key=lambda x: (x[3], x[1], x[2]), reverse=True)
KeyLess(a, b) ==
    \/ a.area < b.area
    \/ a.area = b.area /\ a.w < b.w
    \/ a.area = b.area /\ a.w = b.w /\ a.h < b.h

\* list.sort(reverse=True) is stable: an element goes after every element whose
\* key is not smaller than its own
RECURSIVE InsertDesc(_, _)
InsertDesc(sorted, c) ==
    IF sorted = <<>> THEN <<c>>
    ELSE IF KeyLess(Head(sorted), c) THEN <<c>> \o sorted
         ELSE <<Head(sorted)>> \o InsertDesc(Tail(sorted), c)
SortCandidates_request_order(out) == out

RECURSIVE SortCandidates(_)
SortCandidates(out) ==
    IF out = <<>> THEN <<>>
    ELSE InsertDesc(SortCandidates(SubSeq(out, 1, Len(out) - 1)), out[Len(out)])

RECURSIVE CandidatesLoop(_, _, _)
CandidatesLoop(rest, rotate, out) ==
    IF rest = <<>> THEN out
    ELSE LET d == parse_brick_type_dims(Head(rest))
             w == d[1]
             h == d[2]
             out1 == IF HasDims(out, w, h) THEN out ELSE Append(out, Cand(w, h))
             out2 == IF rotate /\ w # h /\ ~HasDims(out1, h, w)
                     THEN Append(out1, Cand(h, w)) ELSE out1
         IN CandidatesLoop(Tail(rest), rotate, out2)

build_candidates_always_rotate(bts, rotate) ==
    SortCandidates(CandidatesLoop(bts, TRUE, <<>>))

build_candidates(bts, rotate) ==
    SortCandidates(CandidatesLoop(bts, rotate, <<>>))

-----------------------------------------------------------------------------
(* The supported-shape catalog (app/domain/brick_catalog.py) *)

s1x1 == <<"1", "x", "1">>
s1x2 == <<"1", "x", "2">>
s1x3 == <<"1", "x", "3">>
s1x4 == <<"1", "x", "4">>
s1x5 == <<"1", "x", "5">>
s2x1 == <<"2", "x", "1">>
s2x2 == <<"2", "x", "2">>
s2x3 == <<"2", "x", "3">>
s2x4 == <<"2", "x", "4">>
s2x5 == <<"2", "x", "5">>

\* BrickCatalog._SUPPORTED: type -> (w, h)
BrickCatalog_SUPPORTED ==
    << <<s1x1, 1, 1>>, <<s1x2, 2, 1>>, <<s1x3, 3, 1>>, <<s1x4, 4, 1>>, <<s1x5, 5, 1>>,
       <<s2x2, 2, 2>>, <<s2x3, 3, 2>>, <<s2x4, 4, 2>>, <<s2x5, 5, 2>> >>

IsSupported(key) ==
    \E i \in 1..Len(BrickCatalog_SUPPORTED) : BrickCatalog_SUPPORTED[i][1] = key

\* BrickCatalog.normalize: [ok |-> FALSE] stands for the ValueError it raises
RECURSIVE CatalogNormalizeLoop(_, _)
CatalogNormalizeLoop(rest, uniq) ==
    IF rest = <<>> THEN [ok |-> TRUE, types |-> uniq]
    ELSE LET key == Lower(Strip(Head(rest))) IN
         IF ~IsSupported(key) THEN [ok |-> FALSE, types |-> <<>>]
         ELSE CatalogNormalizeLoop(Tail(rest),
                  IF Contains(uniq, key) THEN uniq ELSE Append(uniq, key))

BrickCatalog_normalize(types) ==
    IF types = <<>> THEN [ok |-> TRUE, types |-> <<s1x1>>]
    ELSE LET r == CatalogNormalizeLoop(types, <<>>) IN
         IF ~r.ok THEN r
         ELSE IF Contains(r.types, s1x1) THEN r
              ELSE [ok |-> TRUE, types |-> <<s1x1>> \o r.types]

-----------------------------------------------------------------------------
(* The tiling loop (app/image_analysis.py) *)

GridH(g) == Len(g)
GridW(g) == IF Len(g) > 0 THEN Len(g[1]) ELSE 0

\* cells are addressed 0-based as in the code; rows and columns of the model's
\* sequences are 1-based
can_place_ignoring_occupancy(g, o, x, y, bw, bh, target_color) ==
    IF x + bw > GridW(g) \/ y + bh > GridH(g) THEN FALSE
    ELSE \A yy \in y..(y + bh - 1), xx \in x..(x + bw - 1) :
             g[yy + 1][xx + 1] = target_color

can_place_ignoring_colour(g, o, x, y, bw, bh, target_color) ==
    IF x + bw > GridW(g) \/ y + bh > GridH(g) THEN FALSE
    ELSE \A yy \in y..(y + bh - 1), xx \in x..(x + bw - 1) :
             ~o[yy + 1][xx + 1]

can_place_ignoring_bounds(g, o, x, y, bw, bh, target_color) ==
    \A yy \in y..(y + bh - 1), xx \in x..(x + bw - 1) :
        (yy < GridH(g) /\ xx < GridW(g)) =>
            (~o[yy + 1][xx + 1] /\ g[yy + 1][xx + 1] = target_color)

can_place(g, o, x, y, bw, bh, target_color) ==
    IF x + bw > GridW(g) \/ y + bh > GridH(g) THEN FALSE
    ELSE \A yy \in y..(y + bh - 1), xx \in x..(x + bw - 1) :
             /\ ~o[yy + 1][xx + 1]
             /\ g[yy + 1][xx + 1] = target_color

place_origin_only(o, x, y, bw, bh) ==
    [yy \in DOMAIN o |-> [xx \in DOMAIN o[yy] |->
        o[yy][xx] \/ (yy - 1 = y /\ xx - 1 = x)]]

place(o, x, y, bw, bh) ==
    [yy \in DOMAIN o |-> [xx \in DOMAIN o[yy] |->
        o[yy][xx] \/ (y <= yy - 1 /\ yy - 1 < y + bh /\ x <= xx - 1 /\ xx - 1 < x + bw)]]

\* occ = [[False] * w for _ in range(h)]
StaleOcc(w, h) ==
    IF occ = <<>> THEN [yy \in 1..h |-> [xx \in 1..w |-> FALSE]] ELSE occ

FreshOcc(w, h) == [yy \in 1..h |-> [xx \in 1..w |-> FALSE]]

Brick(x, y, color, type, gid) ==
    [x |-> x, y |-> y, z |-> 0, color |-> color, type |-> type, groupId |-> gid]

\* the index of the first candidate, in list order, that can be placed at (x, y);
\* 0 when none can
FirstPlaceable(g, cands, o, x, y, target_color) ==
    LET ok == {i \in 1..Len(cands) :
                 can_place(g, o, x, y, cands[i].w, cands[i].h, target_color)}
    IN IF ok = {} THEN 0 ELSE CHOOSE i \in ok : \A j \in ok : i <= j

\* one iteration of the inner loop "for x in range(w)" at cell (x, y)
VisitCell(g, cands, o, bs, x, y) ==
    IF o[y + 1][x + 1] THEN [occ |-> o, bricks |-> bs]
    ELSE LET target_color == g[y + 1][x + 1]
             gid == y + 1
             i == FirstPlaceable(g, cands, o, x, y, target_color)
         IN IF i # 0
            THEN [occ |-> place(o, x, y, cands[i].w, cands[i].h),
                  bricks |-> Append(bs, Brick(x, y, target_color, cands[i].type, gid))]
            ELSE [occ |-> place(o, x, y, 1, 1),
                  bricks |-> Append(bs, Brick(x, y, target_color, s1x1, gid))]

\* the whole double loop, from cell number n (row-major) on
RECURSIVE TileFrom(_, _, _, _, _)
TileFrom(g, cands, o, bs, n) ==
    IF n >= GridW(g) * GridH(g) THEN bs
    ELSE LET r == VisitCell(g, cands, o, bs, n % GridW(g), n \div GridW(g))
         IN TileFrom(g, cands, r.occ, r.bricks, n + 1)

TileGrid(g, cands) == TileFrom(g, cands, FreshOcc(GridW(g), GridH(g)), <<>>, 0)

\* colors_grid: rgb_to_hex of every pixel
HexGrid(img) == [yy \in DOMAIN img |-> [xx \in DOMAIN img[yy] |-> rgb_to_hex(img[yy][xx])]]

-----------------------------------------------------------------------------
(* The state of a store no call has been made on *)

NoItems == <<>>

StoreIdle ==
    /\ store = NoItems /\ now = 0 /\ issued = NoItems
    /\ lastGet = [called |-> FALSE]
    /\ lastPut = [called |-> FALSE]

PlanIdle == resp = [called |-> FALSE] /\ gen = [called |-> FALSE]

-----------------------------------------------------------------------------
(* Inputs of the tiling runs *)

Pixels == { <<255, 0, 0>>, <<0, 170, 255>> }

GridSizes == {d \in (1..MaxGridW) \X (1..MaxGridH) : d[1] * d[2] <= MaxCells}

Images == UNION { [1..d[2] -> [1..d[1] -> Pixels]] : d \in GridSizes }

\* the grids of four rows and four columns painted in one colour
SquareImages == { [yy \in 1..4 |-> [xx \in 1..4 |-> p]] : p \in Pixels }

\* requested shape lists: missing/empty, plain, with a duplicate in another
\* spelling, with two shapes of one area, with a shape the catalog does not
\* list, with malformed identifiers
Requests ==
    { <<>>,
      <<s2x2>>,
      <<s1x2>>,
      <<s2x1, s1x1>>,
      <<s1x1, s2x2>>,
      <<s1x3, s2x2>>,
      <<s2x2, s1x4>>,
      << <<" ", "2", "X", "2", " ">>, s2x2, s1x2 >>,
      << <<"a", "b", "c">> >>,
      << <<"0", "x", "2">>, <<"2", "x">> >> }

-----------------------------------------------------------------------------
(* Actions of the tiling runs *)

TilingIdle ==
    /\ brick_types = <<>> /\ allow_rotate = FALSE /\ img_np = <<>>
    /\ candidates = <<>> /\ colors_grid = <<>> /\ occ = <<>> /\ bricks = <<>>
    /\ pc = "idle" /\ sy = 0 /\ sx = 0 /\ run = 0 /\ firstBricks = <<>>

TilingInit ==
    /\ brick_types \in Requests
    /\ allow_rotate \in BOOLEAN
    /\ img_np \in Images \cup SquareImages
    /\ candidates = <<>> /\ colors_grid = <<>> /\ occ = <<>> /\ bricks = <<>>
    /\ pc = "input" /\ sy = 0 /\ sx = 0 /\ run = 1 /\ firstBricks = <<>>
    /\ StoreIdle
    /\ PlanIdle

\* analyze_image_to_guide up to the tiling loop
Prepare ==
    /\ pc = "input"
    /\ candidates' = build_candidates(normalize_brick_types(brick_types), allow_rotate)
    /\ colors_grid' = HexGrid(img_np)
    /\ occ' = FreshOcc(GridW(img_np), GridH(img_np))
    /\ bricks' = <<>>
    /\ pc' = "scan"
    /\ UNCHANGED <<brick_types, allow_rotate, img_np, sy, sx, run, firstBricks>>
    /\ UNCHANGED <<storeVars, planVars>>

\* one iteration of the tiling loop, and the step of the loop counters
ScanCell ==
    /\ pc = "scan"
    /\ LET r == VisitCell(colors_grid, candidates, occ, bricks, sx, sy) IN
           /\ occ' = r.occ
           /\ bricks' = r.bricks
    /\ IF sx + 1 < GridW(colors_grid) THEN sx' = sx + 1 /\ sy' = sy /\ pc' = pc
       ELSE IF sy + 1 < GridH(colors_grid) THEN sx' = 0 /\ sy' = sy + 1 /\ pc' = pc
       ELSE sx' = sx /\ sy' = sy /\ pc' = "done"
    /\ UNCHANGED <<brick_types, allow_rotate, img_np, candidates, colors_grid,
                   run, firstBricks>>
    /\ UNCHANGED <<storeVars, planVars>>

\* a second run of the loop over the same colour grid and candidate list
Rerun ==
    /\ pc = "done" /\ run = 1
    /\ firstBricks' = bricks
    /\ run' = 2
    /\ occ' = FreshOcc(GridW(colors_grid), GridH(colors_grid))
    /\ bricks' = <<>>
    /\ sx' = 0 /\ sy' = 0 /\ pc' = "scan"
    /\ UNCHANGED <<brick_types, allow_rotate, img_np, candidates, colors_grid>>
    /\ UNCHANGED <<storeVars, planVars>>

TilingNext == Prepare \/ ScanCell \/ Rerun

SpecTiling == TilingInit /\ [][TilingNext]_vars

-----------------------------------------------------------------------------
(* The analysis store (app/services/analysis_store.py) *)

MinTTL == 60
DefaultTTL == 1800

\* uuid4().hex values; put takes one that no earlier put returned
Tokens == {"t1", "t2", "t3", "t4"}
\* payloads are opaque to the store; the first one put is called P1
Payloads == {"P1", "P2"}
\* ttl_seconds as passed by the callers that pass one
TTLInputs == {-5, 1, 61}
\* the instants at which the model samples the clock: the first ones, and the
\* ones around the expiry of an entry put at one of the first
Instants == (0..MaxEarly) \cup (MinTTL..MaxNow)

AnalysisRecord(payload, expires_at) == [payload |-> payload, expires_at |-> expires_at]

\* _cleanup at time t: pop every key whose record has expires_at < t
cleanup_inclusive(s, t) ==
    [k \in {k \in DOMAIN s : ~(s[k].expires_at <= t)} |-> s[k]]

cleanup(s, t) ==
    [k \in {k \in DOMAIN s : ~(s[k].expires_at < t)} |-> s[k]]

\* self._store[analysis_id] = rec
SetItem(s, k, rec) == [j \in DOMAIN s \cup {k} |-> IF j = k THEN rec ELSE s[j]]
\* self._store.pop(analysis_id, None)
PopItem(s, k) == [j \in DOMAIN s \ {k} |-> s[j]]

put_without_floor(s, analysis_id, payload, ttl_seconds, t1, t2) ==
    SetItem(cleanup(s, t1), analysis_id, AnalysisRecord(payload, t2 + ttl_seconds))

put_forgetting(s, analysis_id, payload, ttl_seconds, t1, t2) ==
    SetItem(NoItems, analysis_id, AnalysisRecord(payload, t2 + Max(MinTTL, ttl_seconds)))

\* put(payload, ttl_seconds) with _cleanup reading the clock at t1 and the
\* expiry computed from a second reading t2
put(s, analysis_id, payload, ttl_seconds, t1, t2) ==
    LET ttl == Max(MinTTL, ttl_seconds) IN
    SetItem(cleanup(s, t1), analysis_id, AnalysisRecord(payload, t2 + ttl))

Returned(s, payload) == [store |-> s, ok |-> TRUE, payload |-> payload, exc |-> "none"]
Raised(s, exc) == [store |-> s, ok |-> FALSE, payload |-> "none", exc |-> exc]

\* get(analysis_id) with _cleanup reading the clock at t1 and the expiry test
\* reading it at t2: the store left behind, and the payload returned or the
\* exception raised
get_popping(s, analysis_id, t1, t2) ==
    LET s1 == cleanup(s, t1) IN
    IF analysis_id \notin DOMAIN s1 THEN Raised(s1, "KeyError")
    ELSE IF s1[analysis_id].expires_at < t2
         THEN Raised(PopItem(s1, analysis_id), "KeyError")
         ELSE Returned(PopItem(s1, analysis_id), s1[analysis_id].payload)

get_touching(s, analysis_id, t1, t2) ==
    IF analysis_id \notin DOMAIN cleanup(s, t1) THEN Raised(cleanup(s, t1), "KeyError")
    ELSE IF cleanup(s, t1)[analysis_id].expires_at < t2
         THEN Raised(PopItem(cleanup(s, t1), analysis_id), "KeyError")
         ELSE Returned(SetItem(cleanup(s, t1), analysis_id,
                               AnalysisRecord(s[analysis_id].payload, t2 + MinTTL)),
                       s[analysis_id].payload)

get(s, analysis_id, t1, t2) ==
    LET s1 == cleanup(s, t1) IN
    IF analysis_id \notin DOMAIN s1 THEN Raised(s1, "KeyError")
    ELSE IF s1[analysis_id].expires_at < t2
         THEN Raised(PopItem(s1, analysis_id), "KeyError")
         ELSE Returned(s1, s1[analysis_id].payload)

\* build_steps around the lookup: what the caller of phase 2 is told when get
\* raises
LookupFailure(exc) ==
    IF exc = "KeyError" THEN [status |-> 410, code |-> "ANALYSIS_EXPIRED"]
    ELSE [status |-> 500, code |-> "INTERNAL_ERROR"]

\* _analysis_store = AnalysisStore()
StoreInit ==
    /\ StoreIdle
    /\ TilingIdle
    /\ PlanIdle

FreshToken_reused == CHOOSE t \in Tokens : TRUE

FreshToken == CHOOSE t \in Tokens \ DOMAIN issued : TRUE

\* the readings time.time() can give next: the clock never goes back
Later(t, most) == {u \in Instants : t <= u /\ u <= t + most}

\* a call put(payload, ttl_seconds), or put(payload) when given is false
Put ==
    /\ Cardinality(DOMAIN issued) < MaxPuts
    /\ \E payload \in Payloads, given \in BOOLEAN, ttl_arg \in TTLInputs,
          t2 \in Later(now, MaxDrift) :
           /\ given \/ ttl_arg = 1
           /\ issued = NoItems => payload = "P1"
           /\ LET analysis_id == FreshToken
                  ttl_seconds == IF given THEN ttl_arg ELSE DefaultTTL
                  s2 == put(store, analysis_id, payload, ttl_seconds, now, t2)
              IN /\ store' = s2
                 /\ issued' = SetItem(issued, analysis_id,
                                [payload |-> payload,
                                 expires_at |-> s2[analysis_id].expires_at,
                                 read |-> FALSE,
                                 failed |-> analysis_id \in DOMAIN issued
                                            /\ issued[analysis_id].failed])
                 /\ lastPut' = [called |-> TRUE, analysis_id |-> analysis_id,
                                given |-> given,
                                ttl_seconds |-> IF given THEN ttl_arg ELSE 0, at |-> t2,
                                n |-> IF lastPut.called THEN lastPut.n + 1 ELSE 1]
           /\ now' = t2
    /\ UNCHANGED lastGet
    /\ UNCHANGED <<tilingVars, planVars>>

\* whether a token was never issued, is issued and not expired at time t, or is
\* issued and expired at time t
Category(analysis_id, t) ==
    IF analysis_id \notin DOMAIN issued THEN "never_issued"
    ELSE IF issued[analysis_id].expires_at < t THEN "expired" ELSE "live"

\* the time from the last put to a get at time t of the token it returned; -1
\* for a get of another token
SincePut(analysis_id, t) ==
    IF lastPut.called /\ lastPut.analysis_id = analysis_id /\ analysis_id \in DOMAIN issued
    THEN t - lastPut.at ELSE -1

Get ==
    /\ \E analysis_id \in DOMAIN issued \cup {FreshToken}, t2 \in Later(now, MaxDrift) :
           /\ LET r == get(store, analysis_id, now, t2) IN
                 /\ store' = r.store
                 /\ lastGet' = [called |-> TRUE, analysis_id |-> analysis_id,
                                since_put |-> SincePut(analysis_id, t2),
                                category |-> Category(analysis_id, t2),
                                ok |-> r.ok, payload |-> r.payload, exc |-> r.exc,
                                again |-> r.ok /\ issued[analysis_id].read,
                                failed_before |-> analysis_id \in DOMAIN issued
                                                  /\ issued[analysis_id].failed,
                                response |-> IF r.ok THEN "none" ELSE LookupFailure(r.exc)]
                 /\ issued' = IF r.ok
                               THEN [issued EXCEPT ![analysis_id].read = TRUE]
                               ELSE IF analysis_id \in DOMAIN issued
                                    THEN [issued EXCEPT ![analysis_id].failed = TRUE]
                                    ELSE issued
           /\ now' = t2
    /\ UNCHANGED lastPut
    /\ UNCHANGED <<tilingVars, planVars>>

\* time passes between calls
Tick ==
    /\ \E t \in Instants : now < t /\ now' = t
    /\ UNCHANGED <<store, issued, lastGet, lastPut>>
    /\ UNCHANGED <<tilingVars, planVars>>

StoreNext == Put \/ Get \/ Tick

SpecStore == StoreInit /\ [][StoreNext]_vars

-----------------------------------------------------------------------------
(* Conversions of the guide router (app/routers/guide.py) *)

\* the characters of the model in code-point order, for comparing strings
CodePoints == <<" ", "#", ",", "-", "0", "1", "2", "3", "4", "5", "6", "7", "8", "9",
                ":", "A", "B", "C", "D", "E", "F", "P", "S", "T", "X", "_",
                "a", "b", "c", "d", "e", "f", "i", "l", "p", "t", "x">>
Ord(c) == CHOOSE i \in 1..Len(CodePoints) : CodePoints[i] = c

\* s < t for Python strings
RECURSIVE StrLess(_, _)
StrLess(a, b) ==
    IF b = <<>> THEN FALSE
    ELSE IF a = <<>> THEN TRUE
    ELSE IF a[1] # b[1] THEN Ord(a[1]) < Ord(b[1])
    ELSE StrLess(Tail(a), Tail(b))

\* _hex_key
hex_key(v) ==
    LET s == Upper(Strip(v)) IN
    IF s = <<>> THEN <<>>
    ELSE IF s[1] # "#" THEN <<"#">> \o s ELSE s

\* the 1x1 names of _normalize_type
UnitTypeNames ==
    { <<>>,
      <<"p", "l", "a", "t", "e">>,
      <<"t", "i", "l", "e">>,
      <<"p", "l", "a", "t", "e", "_", "1", "x", "1">>,
      <<"t", "i", "l", "e", "_", "1", "x", "1">>,
      s1x1 }

\* _normalize_type
normalize_type(t) ==
    LET s == Lower(Strip(t)) IN IF s \in UnitTypeNames THEN s1x1 ELSE s

\* _brick_dims: w, h = s.lower().split("x"), each at least 1; (1, 1) when the
\* split does not give two integers
brick_dims(brick_type) ==
    LET s == Lower(brick_type)
        xs == {k \in 1..Len(s) : s[k] = "x"}
    IN IF Cardinality(xs) # 1 THEN <<1, 1>>
       ELSE LET k == CHOOSE k \in xs : TRUE
                ws == SubSeq(s, 1, k - 1)
                hs == SubSeq(s, k + 1, Len(s))
            IN IF \/ ws = <<>> \/ hs = <<>>
                  \/ \E i \in 1..Len(ws) : ~IsDigit(ws[i])
                  \/ \E i \in 1..Len(hs) : ~IsDigit(hs[i])
               THEN <<1, 1>>
               ELSE <<Max(1, DecVal(ws)), Max(1, DecVal(hs))>>

\* _build_color_name_map over entries [hex, name]: a later entry for the same
\* key replaces an earlier one
RECURSIVE build_color_name_map(_)
build_color_name_map(palette_like) ==
    IF palette_like = <<>> THEN NoItems
    ELSE LET front == build_color_name_map(SubSeq(palette_like, 1, Len(palette_like) - 1))
             p == palette_like[Len(palette_like)]
             hx == hex_key(p.hex)
             name_str == Strip(p.name)
         IN IF hx = <<>> THEN front
            ELSE SetItem(front, hx, IF name_str # <<>> THEN name_str ELSE hx)

\* _display_color_name
display_color_name(hex_str, name_map) ==
    LET hx == hex_key(hex_str) IN
    IF hx \in DOMAIN name_map THEN name_map[hx] ELSE hx

\* f"{x},{y}:{t}"
BrickId(x, y, t) == DecStr(x) \o <<",">> \o DecStr(y) \o <<":">> \o t

NoSection == <<>>

GuideBrick(section_id, x, y, z, hx, t, name_map) ==
    LET dims == brick_dims(t) IN
    [id |-> BrickId(x, y, t), sectionId |-> section_id, x |-> x, y |-> y, z |-> z,
     color |-> display_color_name(hx, name_map), hex |-> hx, type |-> t,
     width |-> dims[1], height |-> dims[2], quantity |-> 1]

\* _to_schema_brick of a record with x, y, z, color and type
Black == <<"#", "0", "0", "0", "0", "0", "0">>
to_schema_brick(raw, section_id, name_map) ==
    GuideBrick(section_id, raw.x, raw.y, raw.z,
               hex_key(IF raw.color = <<>> THEN Black ELSE raw.color),
               normalize_type(raw.type), name_map)

-----------------------------------------------------------------------------
(* Sections (app/routers/guide.py) *)

SectionId(idx) == <<"S">> \o DecStr(idx)
GuideSection(idx, x, y, w, h) ==
    [id |-> SectionId(idx), bounds |-> [x |-> x, y |-> y, w |-> w, h |-> h]]

RECURSIVE RowSections_untruncated(_, _, _, _, _)
RowSections_untruncated(width, height, rows_per_section, y, idx) ==
    IF ~(y < height) THEN <<>>
    ELSE <<GuideSection(idx, 0, y, width, rows_per_section)>>
         \o RowSections_untruncated(width, height, rows_per_section,
                                    y + rows_per_section, idx + 1)

\* the "rows" branch of _make_sections, from row y and section number idx on
RECURSIVE RowSections(_, _, _, _, _)
RowSections(width, height, rows_per_section, y, idx) ==
    IF ~(y < height) THEN <<>>
    ELSE <<GuideSection(idx, 0, y, width, Min(rows_per_section, height - y))>>
         \o RowSections(width, height, rows_per_section, y + rows_per_section, idx + 1)

\* list filter, keeping the order
RECURSIVE SelectSeq2(_, _)
SelectSeq2(seq, keep) ==
    IF seq = <<>> THEN <<>>
    ELSE (IF Head(seq) \in keep THEN <<Head(seq)>> ELSE <<>>) \o SelectSeq2(Tail(seq), keep)

make_sections(width, height, mode, rows_per_section) ==
    IF mode = "single" THEN <<GuideSection(1, 0, 0, width, height)>>
    ELSE IF mode = "quadrants"
    THEN LET mx == width \div 2
             my == height \div 2
             quads == << GuideSection(1, 0, 0, mx, my),
                         GuideSection(2, mx, 0, width - mx, my),
                         GuideSection(3, 0, my, mx, height - my),
                         GuideSection(4, mx, my, width - mx, height - my) >>
         IN SelectSeq2(quads, {q \in {quads[i] : i \in 1..4} :
                                   q.bounds.w > 0 /\ q.bounds.h > 0})
    ELSE RowSections(width, height, Max(1, rows_per_section), 0, 1)

in_bounds_closed(b, bounds) ==
    /\ bounds.x <= b.x /\ b.x <= bounds.x + bounds.w
    /\ bounds.y <= b.y /\ b.y <= bounds.y + bounds.h

\* _in_bounds
in_bounds(b, bounds) ==
    /\ bounds.x <= b.x /\ b.x < bounds.x + bounds.w
    /\ bounds.y <= b.y /\ b.y < bounds.y + bounds.h

-----------------------------------------------------------------------------
(* Step chunking (app/services/step_generator.py) *)

MinStepCap == 16

\* _sort_key: (y, x, w, h)
SortKeyLess(p, q) ==
    \/ p.y < q.y
    \/ p.y = q.y /\ p.x < q.x
    \/ p.y = q.y /\ p.x = q.x /\ p.w < q.w
    \/ p.y = q.y /\ p.x = q.x /\ p.w = q.w /\ p.h < q.h

\* sorted(placements, key=_sort_key) is stable: an element goes after every
\* element whose key is not greater than its own
RECURSIVE InsertAsc(_, _)
InsertAsc(sorted, p) ==
    IF sorted = <<>> THEN <<p>>
    ELSE IF SortKeyLess(p, Head(sorted)) THEN <<p>> \o sorted
         ELSE <<Head(sorted)>> \o InsertAsc(Tail(sorted), p)
SortPlacements_as_given(ps) == ps

RECURSIVE SortPlacements(_)
SortPlacements(ps) ==
    IF ps = <<>> THEN <<>>
    ELSE InsertAsc(SortPlacements(SubSeq(ps, 1, Len(ps) - 1)), ps[Len(ps)])

\* sorted(rows.keys())
RECURSIVE SortedInts(_)
SortedInts(S) ==
    IF S = {} THEN <<>>
    ELSE LET m == CHOOSE m \in S : \A n \in S : m <= n IN <<m>> \o SortedInts(S \ {m})

\* rows[y]: the placements of row y, in sorted order
RECURSIVE RowOf(_, _)
RowOf(sorted_list, y) ==
    IF sorted_list = <<>> THEN <<>>
    ELSE (IF Head(sorted_list).y = y THEN <<Head(sorted_list)>> ELSE <<>>)
         \o RowOf(Tail(sorted_list), y)

\* chunk_placements: rows[y] for y in y_chunk, concatenated
RECURSIVE ConcatRows(_, _)
ConcatRows(sorted_list, y_chunk) ==
    IF y_chunk = <<>> THEN <<>>
    ELSE RowOf(sorted_list, Head(y_chunk)) \o ConcatRows(sorted_list, Tail(y_chunk))

PartOf_one_short(chunk_placements, j, cap) ==
    SubSeq(chunk_placements, j + 1, Min(j + cap - 1, Len(chunk_placements)))

\* chunk_placements[j : j + max_placements_per_step]
PartOf(chunk_placements, j, cap) ==
    SubSeq(chunk_placements, j + 1, Min(j + cap, Len(chunk_placements)))

RECURSIVE SplitChunk_trailing_part(_, _, _, _, _)
SplitChunk_trailing_part(chunk_placements, cap, j, y_chunk, step_index) ==
    IF j > Len(chunk_placements) THEN <<>>
    ELSE << [index |-> step_index,
             min_y |-> y_chunk[1],
             max_y |-> y_chunk[Len(y_chunk)],
             placements |-> PartOf(chunk_placements, j, cap)] >>
         \o SplitChunk_trailing_part(chunk_placements, cap, j + cap, y_chunk,
                                     step_index + 1)

\* the inner loop "for j in range(0, len(chunk_placements), max_placements_per_step)"
RECURSIVE SplitChunk(_, _, _, _, _)
SplitChunk(chunk_placements, cap, j, y_chunk, step_index) ==
    IF j >= Len(chunk_placements) THEN <<>>
    ELSE << [index |-> step_index,
             min_y |-> y_chunk[1],
             max_y |-> y_chunk[Len(y_chunk)],
             placements |-> PartOf(chunk_placements, j, cap)] >>
         \o SplitChunk(chunk_placements, cap, j + cap, y_chunk, step_index + 1)

\* the outer loop "for i in range(0, len(ys), rows_per_step)"
RECURSIVE StepsLoop(_, _, _, _, _, _)
StepsLoop(sorted_list, ys, rows_per_step, cap, i, step_index) ==
    IF i >= Len(ys) THEN <<>>
    ELSE LET y_chunk == SubSeq(ys, i + 1, Min(i + rows_per_step, Len(ys)))
             parts == SplitChunk(ConcatRows(sorted_list, y_chunk), cap, 0, y_chunk,
                                 step_index)
         IN parts \o StepsLoop(sorted_list, ys, rows_per_step, cap, i + rows_per_step,
                               step_index + Len(parts))

generate_steps_by_rows(placements, rows_per_step, max_placements_per_step) ==
    IF placements = <<>> THEN <<>>
    ELSE StepsLoop(SortPlacements(placements),
                   SortedInts({placements[i].y : i \in 1..Len(placements)}),
                   Max(1, rows_per_step),
                   Max(MinStepCap, max_placements_per_step),
                   0, 1)

-----------------------------------------------------------------------------
(* Phase 2: build_steps (app/routers/guide.py) *)

\* the keys (type, hex) of a step's bricks and their counts, ordered by
\* (-count, type, hex)
PartKeys(bs) == {<<bs[i].type, hex_key(bs[i].hex)>> : i \in 1..Len(bs)}
PartCount_overwritten(bs, k) == 1

PartCount(bs, k) ==
    Cardinality({i \in 1..Len(bs) : <<bs[i].type, hex_key(bs[i].hex)>> = k})
PartBefore(bs, k1, k2) ==
    LET n1 == PartCount(bs, k1)
        n2 == PartCount(bs, k2)
    IN \/ n1 > n2
       \/ n1 = n2 /\ StrLess(k1[1], k2[1])
       \/ n1 = n2 /\ k1[1] = k2[1] /\ StrLess(k1[2], k2[2])
RECURSIVE SortParts(_, _)
SortParts(bs, keys) ==
    IF keys = {} THEN <<>>
    ELSE LET k == CHOOSE k \in keys : \A j \in keys \ {k} : PartBefore(bs, k, j)
         IN <<k>> \o SortParts(bs, keys \ {k})

\* _parts_summary
parts_summary(bs, name_map) ==
    LET order == SortParts(bs, PartKeys(bs)) IN
    [i \in 1..Len(order) |->
        [type |-> order[i][1], hex |-> order[i][2],
         color |-> display_color_name(order[i][2], name_map),
         count |-> PartCount(bs, order[i])]]

\* the dict passed to the step generator for a section's brick
Placement(b) ==
    [x |-> b.x, y |-> b.y, w |-> b.width, h |-> b.height, color |-> b.hex,
     type |-> b.type]

\* the brick of a step's delta, rebuilt from a generator placement
DeltaBrick(p, sec, name_map) ==
    GuideBrick(sec.id, p.x, p.y, 0, hex_key(p.color), normalize_type(p.type), name_map)

\* f"{sec.id}-STEP-{step_index}"
StepId(sec, step_index) == sec.id \o <<"-", "S", "T", "E", "P", "-">> \o DecStr(step_index)

GuideBuildStep(sec, step_index, s, name_map) ==
    LET delta == [i \in 1..Len(s.placements) |-> DeltaBrick(s.placements[i], sec, name_map)]
    IN [id |-> StepId(sec, step_index), sectionId |-> sec.id, index |-> step_index,
        min_y |-> s.min_y, max_y |-> s.max_y,
        bricks |-> delta, partsSummary |-> parts_summary(delta, name_map)]

\* [b for b in all_bricks if _in_bounds(b, sec.bounds)]
RECURSIVE BricksIn(_, _)
BricksIn(all_bricks, bounds) ==
    IF all_bricks = <<>> THEN <<>>
    ELSE (IF in_bounds(Head(all_bricks), bounds) THEN <<Head(all_bricks)>> ELSE <<>>)
         \o BricksIn(Tail(all_bricks), bounds)

\* the loop "for sec in sections" of build_steps; step_index is the counter set
\* to 1 before the loop
RECURSIVE SectionsLoop(_, _, _, _, _, _)
SectionsLoop(sections, all_bricks, name_map, rows_per_step, cap, step_index) ==
    IF sections = <<>> THEN <<>>
    ELSE LET sec == Head(sections)
             sec_bricks == BricksIn(all_bricks, sec.bounds)
         IN IF sec_bricks = <<>>
            THEN SectionsLoop(Tail(sections), all_bricks, name_map, rows_per_step, cap,
                              step_index)
            ELSE LET placements == [i \in 1..Len(sec_bricks) |-> Placement(sec_bricks[i])]
                     raw_steps == generate_steps_by_rows(placements, rows_per_step, cap)
                 IN [k \in 1..Len(raw_steps) |->
                        GuideBuildStep(sec, step_index + k - 1, raw_steps[k], name_map)]
                    \o SectionsLoop(Tail(sections), all_bricks, name_map, rows_per_step,
                                    cap, step_index + Len(raw_steps))

\* build_steps once the record is found
AllBricks(record, name_map) ==
    [i \in 1..Len(record.bricks) |-> to_schema_brick(record.bricks[i], NoSection, name_map)]

BuildStepsAnswer(analysis_id, record, req, sections, all_bricks, name_map) ==
    [status |-> 200, code |-> "OK", analysisId |-> analysis_id,
     sections |-> sections,
     steps |-> SectionsLoop(sections, all_bricks, name_map, req.rowsPerStep,
                            req.maxPlacementsPerStep, 1),
     bricks |-> all_bricks,
     meta |-> [width |-> record.width, height |-> record.height,
               sectionMode |-> req.sectionMode, rowsPerSection |-> req.rowsPerSection,
               rowsPerStep |-> req.rowsPerStep,
               maxPlacementsPerStep |-> req.maxPlacementsPerStep]]

BuildStepsResponse(analysis_id, record, req) ==
    BuildStepsAnswer(analysis_id, record, req,
                     make_sections(record.width, record.height, req.sectionMode,
                                   req.rowsPerSection),
                     AllBricks(record, build_color_name_map(record.palette)),
                     build_color_name_map(record.palette))

-----------------------------------------------------------------------------
(* Phase 1: analyze_guide (app/routers/guide.py) and the palette of
   analyze_image_to_guide (app/image_analysis.py) *)

\* the keys of palette_counter, in the order the loop first meets them
RECURSIVE PaletteKeys(_)
PaletteKeys(bs) ==
    IF bs = <<>> THEN <<>>
    ELSE LET front == PaletteKeys(SubSeq(bs, 1, Len(bs) - 1))
             c == bs[Len(bs)].color
         IN IF Contains(front, c) THEN front ELSE Append(front, c)

BucketCount(bs, c) == Cardinality({i \in 1..Len(bs) : bs[i].color = c})
BucketTypes(bs, c) == {bs[i].type : i \in {i \in 1..Len(bs) : bs[i].color = c}}

\* sorted(list(data["types"]))
RECURSIVE SortedStrs(_)
SortedStrs(S) ==
    IF S = {} THEN <<>>
    ELSE LET m == CHOOSE m \in S : \A n \in S \ {m} : StrLess(m, n)
         IN <<m>> \o SortedStrs(S \ {m})

\* sorted(palette_counter.items(), key=count, reverse=True): stable, so entries
\* of equal count keep the order of the dict
RECURSIVE InsertByCount(_, _, _)
InsertByCount(bs, sorted, c) ==
    IF sorted = <<>> THEN <<c>>
    ELSE IF BucketCount(bs, c) > BucketCount(bs, Head(sorted)) THEN <<c>> \o sorted
         ELSE <<Head(sorted)>> \o InsertByCount(bs, Tail(sorted), c)
RECURSIVE SortByCount(_, _)
SortByCount(bs, keys) ==
    IF keys = <<>> THEN <<>>
    ELSE InsertByCount(bs, SortByCount(bs, SubSeq(keys, 1, Len(keys) - 1)), keys[Len(keys)])

PaletteItem(color, name, count, types) ==
    [color |-> color, name |-> name, count |-> count, types |-> types]

\* the palette list of analyze_image_to_guide
PaletteOf(bs) ==
    LET order == SortByCount(bs, PaletteKeys(bs)) IN
    [i \in 1..Len(order) |->
        PaletteItem(order[i], order[i], BucketCount(bs, order[i]),
                    SortedStrs(BucketTypes(bs, order[i])))]

\* the keys (type_str, target_color) of inventory_counter, in the order the
\* loop first meets them
RECURSIVE InventoryKeys(_)
InventoryKeys(bs) ==
    IF bs = <<>> THEN <<>>
    ELSE IF Contains(InventoryKeys(SubSeq(bs, 1, Len(bs) - 1)),
                     <<bs[Len(bs)].type, bs[Len(bs)].color>>)
         THEN InventoryKeys(SubSeq(bs, 1, Len(bs) - 1))
         ELSE Append(InventoryKeys(SubSeq(bs, 1, Len(bs) - 1)),
                     <<bs[Len(bs)].type, bs[Len(bs)].color>>)

InventoryCount(bs, k) ==
    Cardinality({i \in 1..Len(bs) : bs[i].type = k[1] /\ bs[i].color = k[2]})

\* sorted(inventory_counter.items(), key=count, reverse=True): stable
RECURSIVE InsertByInventoryCount(_, _, _)
InsertByInventoryCount(bs, sorted, k) ==
    IF sorted = <<>> THEN <<k>>
    ELSE IF InventoryCount(bs, k) > InventoryCount(bs, Head(sorted)) THEN <<k>> \o sorted
         ELSE <<Head(sorted)>> \o InsertByInventoryCount(bs, Tail(sorted), k)
RECURSIVE SortInventory(_, _)
SortInventory(bs, keys) ==
    IF keys = <<>> THEN <<>>
    ELSE InsertByInventoryCount(bs, SortInventory(bs, SubSeq(keys, 1, Len(keys) - 1)),
                                keys[Len(keys)])

\* one dict of the inventory list
InventoryItem(k, count) ==
    [type |-> <<"p", "l", "a", "t", "e", "_">>
                 \o TypeStr(parse_brick_type_dims(k[1])[1], parse_brick_type_dims(k[1])[2]),
     width |-> parse_brick_type_dims(k[1])[1],
     height |-> parse_brick_type_dims(k[1])[2],
     hex |-> k[2], color |-> k[2], count |-> count]

\* the inventory list of analyze_image_to_guide
InventoryList(bs, order) ==
    [i \in 1..Len(order) |-> InventoryItem(order[i], InventoryCount(bs, order[i]))]
InventoryOf(bs) == InventoryList(bs, SortInventory(bs, InventoryKeys(bs)))

\* f"{width}x{height}"
GridSizeStr(width, height) == DecStr(width) \o <<"x">> \o DecStr(height)

\* the dict analyze_guide hands to _analysis_store.put for the image img:
\* the analysis is run with brick_types=None, every brick is stored with its
\* hex colour and the type "1x1", every palette entry with the value c that
\* analyze_guide passes both as color and as hex
\* the palette of analyze_guide: PaletteItem(color=c, hex=c, ...) for each entry
\* of the analysis
GuidePalette(palette_raw) ==
    [i \in 1..Len(palette_raw) |->
        [hex |-> palette_raw[i].color, color |-> palette_raw[i].color,
         name |-> palette_raw[i].name, count |-> palette_raw[i].count,
         types |-> palette_raw[i].types]]

\* the bricks of analyze_guide
GuideBricks(raw_bricks, name_map) ==
    [i \in 1..Len(raw_bricks) |-> to_schema_brick(raw_bricks[i], NoSection, name_map)]

\* the "bricks" list of the stored dict
StoredPlacements(bs) ==
    [i \in 1..Len(bs) |->
        [x |-> bs[i].x, y |-> bs[i].y, z |-> bs[i].z, color |-> bs[i].hex, type |-> s1x1]]

ALLOWED_BRICK_TYPES ==
    {s1x1, s1x2, s1x3, s1x4, s1x5, s2x2, s2x3, s2x4, s2x5}

\* [x.strip() for x in bt if x.strip()]
RECURSIVE StripAll(_)
StripAll(bt) ==
    IF bt = <<>> THEN <<>>
    ELSE (IF Strip(Head(bt)) = <<>> THEN <<>> ELSE << Strip(Head(bt)) >>)
         \o StripAll(Tail(bt))

RECURSIVE dedupe_preserve_order(_, _)
dedupe_preserve_order(items, out) ==
    IF items = <<>> THEN out
    ELSE dedupe_preserve_order(Tail(items),
                               IF Contains(out, Head(items)) THEN out
                               ELSE Append(out, Head(items)))

\* [x for x in cleaned if x in ALLOWED_BRICK_TYPES]
RECURSIVE AllowedOnly(_)
AllowedOnly(cleaned) ==
    IF cleaned = <<>> THEN <<>>
    ELSE (IF Head(cleaned) \in ALLOWED_BRICK_TYPES THEN << Head(cleaned) >> ELSE <<>>)
         \o AllowedOnly(Tail(cleaned))

\* _normalize_brick_types of the router; None is the empty list here (the
\* function never returns an empty list, and its caller stores "bt_list or []")
guide_normalize_brick_types(bt) ==
    IF AllowedOnly(dedupe_preserve_order(StripAll(bt), <<>>)) = <<>> THEN <<>>
    ELSE IF Contains(AllowedOnly(dedupe_preserve_order(StripAll(bt), <<>>)), s1x1)
         THEN AllowedOnly(dedupe_preserve_order(StripAll(bt), <<>>))
         ELSE <<s1x1>> \o AllowedOnly(dedupe_preserve_order(StripAll(bt), <<>>))

\* _parse_brick_types_value of a list of strings
parse_brick_types_value(v) ==
    guide_normalize_brick_types([i \in 1..Len(v) |-> Strip(v[i])])

StoredDict(width, height, raw_bricks, palette, bt_list) ==
    [width |-> width, height |-> height,
     bricks |-> StoredPlacements(GuideBricks(raw_bricks, build_color_name_map(palette))),
     options |-> [gridSize |-> GridSizeStr(width, height), brickTypes |-> bt_list],
     palette |-> palette]

\* the bricks of analyze_image_to_guide called with brick_types=None
AnalysisBricks(img) ==
    TileGrid(HexGrid(img), build_candidates(normalize_brick_types(<<>>), TRUE))

\* the dict analyze_guide stores for an image and the requested brick types
AnalysisPayload(img, bt_list) ==
    StoredDict(GridW(img), GridH(img), AnalysisBricks(img),
               GuidePalette(PaletteOf(AnalysisBricks(img))), bt_list)

-----------------------------------------------------------------------------
(* Inputs of the two-phase flow *)

PixelA == <<255, 0, 0>>
PixelB == <<0, 170, 255>>
Patterns == {"solid", "columns", "rows", "corner"}

\* the quantized image of w columns and h rows painted with pattern pat
PlanImage(w, h, pat) ==
    [yy \in 1..h |-> [xx \in 1..w |->
        IF pat = "columns" THEN (IF xx % 2 = 1 THEN PixelA ELSE PixelB)
        ELSE IF pat = "rows" THEN (IF yy % 2 = 1 THEN PixelA ELSE PixelB)
        ELSE IF pat = "corner" THEN (IF xx = 1 /\ yy = 1 THEN PixelB ELSE PixelA)
        ELSE PixelA]]

PlanImages == {PlanImage(w, h, pat) : w \in 1..MaxPlanW, h \in 1..MaxPlanH, pat \in Patterns}

\* the shapes a caller asks for in the options of /analyze
BrickTypeRequests ==
    { <<>>,
      <<s2x2>>,
      << <<" ">> \o s1x2, s1x2, <<"3", "x", "3">> >> }

\* BuildStepsRequest: the fields build_steps reads, within the ranges the
\* schema accepts
SectionModes == {"single", "rows", "quadrants"}
RowsPerSectionInputs == {1, 3}
RowsPerStepInputs == {2, 3, 4}
MaxPlacementsInputs == {16, 256}
BuildStepsRequests ==
    [sectionMode : SectionModes, rowsPerSection : RowsPerSectionInputs,
     rowsPerStep : RowsPerStepInputs, maxPlacementsPerStep : MaxPlacementsInputs]

-----------------------------------------------------------------------------
(* Actions of the two-phase flow *)

PlanInit ==
    /\ StoreIdle
    /\ TilingIdle
    /\ PlanIdle

\* The flow is one analysis and one request for its steps, both made within
\* one reading of the clock: build_steps keeps no state of its own, and the
\* passing of time between calls is the subject of SpecStore.

\* POST /analyze: the analysis of one image, stored under a new token with the
\* default lifetime
AnalyzeGuide ==
    /\ issued = NoItems
    /\ \E img \in PlanImages, brick_types_arg \in BrickTypeRequests :
           LET analysis_id == FreshToken
               bt_list == parse_brick_types_value(brick_types_arg)
               s2 == put(store, analysis_id, AnalysisPayload(img, bt_list), DefaultTTL,
                         now, now)
           IN /\ store' = s2
              /\ issued' = SetItem(issued, analysis_id,
                             [payload |-> s2[analysis_id].payload,
                              expires_at |-> s2[analysis_id].expires_at,
                              read |-> FALSE, failed |-> FALSE])
              /\ lastPut' = [called |-> TRUE, analysis_id |-> analysis_id,
                             given |-> FALSE, ttl_seconds |-> 0, at |-> now,
                             n |-> IF lastPut.called THEN lastPut.n + 1 ELSE 1]
    /\ UNCHANGED <<now, lastGet, resp, gen>>
    /\ UNCHANGED tilingVars

\* the answer of build_steps to a request for analysis_id
BuildStepsResult(r, analysis_id, req) ==
    IF r.ok
    THEN [called |-> TRUE, req |-> req] @@ BuildStepsResponse(analysis_id, r.payload, req)
    ELSE [called |-> TRUE, analysisId |-> analysis_id] @@ LookupFailure(r.exc)

\* POST /steps, for the token of the analysis or for one never issued
BuildSteps ==
    /\ issued # NoItems
    /\ ~resp.called
    /\ \E analysis_id \in DOMAIN issued \cup {FreshToken}, req \in BuildStepsRequests :
           /\ store' = get(store, analysis_id, now, now).store
           /\ resp' = [calls |-> 1]
                        @@ BuildStepsResult(get(store, analysis_id, now, now), analysis_id, req)
    /\ UNCHANGED <<now, issued, lastGet, lastPut, gen>>
    /\ UNCHANGED tilingVars

\* POST /steps once more, for the token and with the parameters of the request
\* just answered; the sections and steps of the first answer are kept for
\* comparison
BuildStepsAgain ==
    /\ resp.called /\ resp.calls = 1 /\ resp.status = 200
    /\ store' = get(store, resp.analysisId, now, now).store
    /\ resp' = [calls |-> 2, first |-> [sections |-> resp.sections, steps |-> resp.steps]]
                 @@ BuildStepsResult(get(store, resp.analysisId, now, now),
                                     resp.analysisId, resp.req)
    /\ UNCHANGED <<now, issued, lastGet, lastPut, gen>>
    /\ UNCHANGED tilingVars

PlanNext == AnalyzeGuide \/ BuildSteps \/ BuildStepsAgain

SpecSteps == PlanInit /\ [][PlanNext]_vars

-----------------------------------------------------------------------------
(* Direct calls of generate_steps_by_rows *)

\* the placement dicts of a w x h grid of unit bricks, in row-major order
RECURSIVE UnitPlacements(_, _, _)
UnitPlacements(w, h, k) ==
    IF k >= w * h THEN <<>>
    ELSE << [x |-> k % w, y |-> k \div w, w |-> 1, h |-> 1, color |-> Black,
             type |-> s1x1] >>
         \o UnitPlacements(w, h, k + 1)

Reversed(seq) == [i \in 1..Len(seq) |-> seq[Len(seq) + 1 - i]]

\* the placement dicts of w x h bricks of one column and two rows each, which
\* leave every second grid row without an origin
RECURSIVE TallPlacements(_, _, _)
TallPlacements(w, h, k) ==
    IF k >= w * h THEN <<>>
    ELSE << [x |-> k % w, y |-> 2 * (k \div w), w |-> 1, h |-> 2, color |-> Black,
             type |-> s1x2] >>
         \o TallPlacements(w, h, k + 1)

\* the lists handed to the generator: empty, sorted or not, with an origin in
\* every row or not
PlacementLists ==
    { <<>> } \cup
    UNION { {UnitPlacements(w, h, 0), Reversed(UnitPlacements(w, h, 0)),
             TallPlacements(w, h, 0)} :
                w \in 1..MaxPlanW, h \in 1..MaxPlanH }

\* the arguments a caller may pass: :int, with no range of its own
RowsPerStepArgs == {0, 1, 2, 4}
CapArgs == {1, 15, 16, 17}

ChunkInit ==
    /\ StoreIdle
    /\ TilingIdle
    /\ PlanIdle

\* one call of the generator; it keeps no state between calls
GenerateSteps ==
    /\ ~gen.called
    /\ \E placements \in PlacementLists, rows_per_step \in RowsPerStepArgs,
          max_placements_per_step \in CapArgs :
           gen' = [called |-> TRUE,
                   placements |-> placements,
                   rows_per_step |-> rows_per_step,
                   max_placements_per_step |-> max_placements_per_step,
                   steps |-> generate_steps_by_rows(placements, rows_per_step,
                                                    max_placements_per_step)]
    /\ UNCHANGED resp
    /\ UNCHANGED <<tilingVars, storeVars>>

SpecChunk == ChunkInit /\ [][GenerateSteps]_vars

-----------------------------------------------------------------------------
(* Properties of the tiling *)

\* the rectangle of a placement: origin (x, y), dimensions read from its type
BrickW(b) == parse_brick_type_dims(b.type)[1]
BrickH(b) == parse_brick_type_dims(b.type)[2]
BrickCells(b) ==
    LET d == parse_brick_type_dims(b.type) IN
    {<<x, y>> : x \in b.x..(b.x + d[1] - 1), y \in b.y..(b.y + d[2] - 1)}
\* the rectangles of the placements emitted so far
Rects == [i \in 1..Len(bricks) |-> BrickCells(bricks[i])]
GridCells(g) == {<<x, y>> : x \in 0..(GridW(g) - 1), y \in 0..(GridH(g) - 1)}
Covering(rects, cell) == {i \in DOMAIN rects : cell \in rects[i]}
RECURSIVE SumAreas(_)
SumAreas(bs) ==
    IF bs = <<>> THEN 0 ELSE BrickW(Head(bs)) * BrickH(Head(bs)) + SumAreas(Tail(bs))
Scanning == pc \in {"scan", "done"}

\* C1: when the tiling loop has finished, every grid cell is covered by exactly
\* one emitted placement, and the placement areas sum to width * height.
C1_FullCoverage ==
    pc = "done" =>
        /\ LET rects == Rects IN
           \A cell \in GridCells(colors_grid) : Cardinality(Covering(rects, cell)) = 1
        /\ SumAreas(bricks) = GridW(colors_grid) * GridH(colors_grid)

\* a finished run over a grid that took a multi-cell piece and a 1x1 piece
C1_Witness ==
    /\ pc = "done"
    /\ \E i, j \in 1..Len(bricks) :
           BrickW(bricks[i]) * BrickH(bricks[i]) > 1 /\ bricks[j].type = s1x1

\* C2: at every point of the scan no two emitted placements share a cell, and the
\* occupancy mask marks exactly the cells of the placements emitted so far (so no
\* piece is ever placed over an occupied cell).
C2_NoOverlapMaskExact ==
    Scanning =>
        LET rects == Rects IN
        /\ \A i, j \in 1..Len(bricks) : i # j => rects[i] \cap rects[j] = {}
        /\ \A cell \in GridCells(colors_grid) :
               occ[cell[2] + 1][cell[1] + 1] <=> Covering(rects, cell) # {}

\* the scan is under way, below a piece that reaches down from the row above
C2_Witness ==
    /\ pc = "scan" /\ sy = 1
    /\ \E i \in 1..Len(bricks) : bricks[i].y = 0 /\ BrickH(bricks[i]) = 2
    /\ \E cell \in GridCells(colors_grid) : ~occ[cell[2] + 1][cell[1] + 1]

\* C3: every emitted placement is colour-homogeneous: every cell of its rectangle
\* has, in the colour grid, the colour recorded on the placement, which is the
\* colour of the cell at its origin.
C3_ColourHomogeneous ==
    Scanning =>
        \A i \in 1..Len(bricks) :
            /\ bricks[i].color = colors_grid[bricks[i].y + 1][bricks[i].x + 1]
            /\ \A cell \in BrickCells(bricks[i]) :
                   /\ cell \in GridCells(colors_grid)
                   /\ colors_grid[cell[2] + 1][cell[1] + 1] = bricks[i].color

\* a two-colour grid in which a multi-cell piece was placed
C3_Witness ==
    /\ pc = "done"
    /\ \E i, j \in 1..Len(bricks) :
           /\ BrickW(bricks[i]) * BrickH(bricks[i]) > 1
           /\ bricks[j].color # bricks[i].color

\* C4: every emitted placement lies within the grid: 0 <= x, 0 <= y,
\* x + width <= gridWidth and y + height <= gridHeight.
C4_WithinGrid ==
    Scanning =>
        \A i \in 1..Len(bricks) :
            /\ 0 <= bricks[i].x
            /\ 0 <= bricks[i].y
            /\ bricks[i].x + BrickW(bricks[i]) <= GridW(colors_grid)
            /\ bricks[i].y + BrickH(bricks[i]) <= GridH(colors_grid)

\* a single-colour grid narrower than the largest candidate: the candidate is
\* turned down at every cell and a smaller piece ends at the right edge
C4_Witness ==
    /\ pc = "done"
    /\ candidates[1].w > GridW(colors_grid)
    /\ \A cell \in GridCells(colors_grid) :
           colors_grid[cell[2] + 1][cell[1] + 1] = colors_grid[1][1]
    /\ \E i \in 1..Len(bricks) :
           bricks[i].x + BrickW(bricks[i]) = GridW(colors_grid)

\* the orientations (w, h) of the requested identifiers
RequestedDims == {parse_brick_type_dims(brick_types[i]) : i \in 1..Len(brick_types)}

\* C8: with allow_rotate = false the candidate list holds only the orientations
\* of the requested identifiers (plus 1x1), so no placement has the swapped
\* width/height of a requested shape unless that orientation was requested too.
C8_NoRotationWhenDisabled ==
    (Scanning /\ ~allow_rotate) =>
        /\ \A i \in 1..Len(candidates) :
               <<candidates[i].w, candidates[i].h>> \in RequestedDims \cup {<<1, 1>>}
        /\ \A i \in 1..Len(bricks) :
               <<BrickW(bricks[i]), BrickH(bricks[i])>> \in RequestedDims \cup {<<1, 1>>}

\* rotation is off, a non-square shape was requested and placed, and the grid
\* had room for its swapped orientation at the same cell
C8_Witness ==
    /\ pc = "done" /\ ~allow_rotate
    /\ \E i \in 1..Len(bricks) :
           /\ BrickW(bricks[i]) # BrickH(bricks[i])
           /\ bricks[i].x + BrickH(bricks[i]) <= GridW(colors_grid)
           /\ bricks[i].y + BrickW(bricks[i]) <= GridH(colors_grid)

C10_InvalidRequestRejected ==
    ~BrickCatalog_normalize(brick_types).ok => (candidates = <<>> /\ bricks = <<>>)

SingleColour(g) ==
    \A cell \in GridCells(g) : g[cell[2] + 1][cell[1] + 1] = g[1][1]
\* origin and type of every placement, in the order of emission
Emitted == [i \in 1..Len(bricks) |-> <<bricks[i].x, bricks[i].y, bricks[i].type>>]

\* C11: a single-colour grid of one row and two columns, tiled with the
\* requested shapes {1x2} and rotate = false, gets exactly one placement, of
\* shape 1x2 at (0, 0), and no 1x1 placement.
C11_ScenarioB ==
    ( /\ pc = "done" /\ brick_types = <<s1x2>> /\ ~allow_rotate
      /\ GridW(colors_grid) = 2 /\ GridH(colors_grid) = 1
      /\ SingleColour(colors_grid) )
    => Emitted = << <<0, 0, s1x2>> >>

\* C12: a single-colour grid of four rows and four columns, tiled with the
\* requested shapes {1x1, 2x2} and rotate = true, gets exactly four 2x2
\* placements, at (0,0), (2,0), (0,2) and (2,2), and no 1x1 placement.
C12_ScenarioA ==
    ( /\ pc = "done" /\ brick_types = <<s1x1, s2x2>> /\ allow_rotate
      /\ GridW(colors_grid) = 4 /\ GridH(colors_grid) = 4
      /\ SingleColour(colors_grid) )
    => Emitted = << <<0, 0, s2x2>>, <<2, 0, s2x2>>, <<0, 2, s2x2>>, <<2, 2, s2x2>> >>

\* the run of scenario A has finished
C12_Witness ==
    /\ pc = "done" /\ brick_types = <<s1x1, s2x2>> /\ allow_rotate
    /\ GridW(colors_grid) = 4 /\ GridH(colors_grid) = 4
    /\ SingleColour(colors_grid)
    /\ Len(bricks) = 4

-----------------------------------------------------------------------------
(* Properties of the analysis store *)

\* C5: get on a token put returned gives back the payload passed to that put
\* whenever it is called before the entry's expiry, however many gets of this
\* token, and puts and gets of other tokens, came before it.
C5_GetReturnsPayload ==
    (lastGet.called /\ lastGet.category = "live") =>
        /\ lastGet.ok
        /\ lastGet.payload = issued[lastGet.analysis_id].payload

\* a successful get of a token that a get had returned before, when another
\* token, of another payload and a later expiry, has been put and read too
C5_Witness ==
    /\ lastGet.called /\ lastGet.ok
    /\ Cardinality(DOMAIN issued) = 2
    /\ lastGet.again
    /\ \E t \in DOMAIN issued :
           /\ t # lastGet.analysis_id
           /\ issued[t].read
           /\ issued[t].payload # lastGet.payload
           /\ issued[t].expires_at > issued[lastGet.analysis_id].expires_at

\* what the caller of phase 2 gets, in the current state, for a token that no put
\* has returned
NeverIssuedFailure ==
    LET t == CHOOSE t \in Tokens \ DOMAIN issued : TRUE
        r == get(store, t, now, now)
    IN <<r.ok, r.exc, LookupFailure(r.exc)>>

\* C6: a get that fails because the entry's TTL has elapsed fails with an
\* outcome (Expired) distinct from the outcome (NotFound) of a get on a token
\* that was never issued, so that the caller can tell the two apart.
C6_ExpiredDistinctFromNotFound ==
    (lastGet.called /\ lastGet.category = "expired") =>
        /\ ~lastGet.ok
        /\ <<lastGet.ok, lastGet.exc, lastGet.response>> # NeverIssuedFailure

\* C13: after put(P, ttl = 1 time unit), a get of the returned token made more
\* than 1 time unit after the put fails, and fails with Expired rather than
\* NotFound.
C13_ScenarioD ==
    ( /\ lastGet.called /\ lastPut.called
      /\ lastGet.analysis_id = lastPut.analysis_id
      /\ lastPut.given /\ lastPut.ttl_seconds = 1
      /\ lastGet.since_put > 1 )
    => (~lastGet.ok /\ lastGet.exc = "Expired")

\* C14: whatever ttl_seconds the caller passes, 0 and negative values included,
\* the entry's expires_at is the clock reading of the put plus
\* max(60, ttl_seconds), plus 1800 when no ttl is passed; and a get of the token
\* made up to 60 seconds after the put succeeds.
C14_MinimumTTL ==
    /\ lastPut.called =>
          LET asked == IF lastPut.given THEN lastPut.ttl_seconds ELSE 1800 IN
          /\ issued[lastPut.analysis_id].expires_at
                = lastPut.at + (IF asked > 60 THEN asked ELSE 60)
          /\ issued[lastPut.analysis_id].expires_at >= lastPut.at + 60
    /\ (lastGet.called /\ lastGet.since_put >= 0 /\ lastGet.since_put <= 60)
          => lastGet.ok

\* a put with a ttl below zero, and a successful get of its token 60 seconds
\* after it
C14_Witness ==
    /\ lastPut.called /\ lastPut.given /\ lastPut.ttl_seconds < 0
    /\ lastGet.called /\ lastGet.analysis_id = lastPut.analysis_id
    /\ lastGet.since_put = 60 /\ lastGet.ok

\* C15: with put and get calls of independent requests interleaved in any
\* order, each acting as one step on the entry map: every put returned a token
\* no earlier put had returned (the tokens issued are as many as the puts), every
\* issued entry that has not expired is in the map with the payload and expiry
\* its put gave it, the map holds nothing else, and a get that returns gives the
\* payload put under its token.
C15_AtomicCalls ==
    /\ lastPut.called => Cardinality(DOMAIN issued) = lastPut.n
    /\ DOMAIN store \subseteq DOMAIN issued
    /\ \A t \in DOMAIN issued :
          ~(issued[t].expires_at < now) =>
              /\ t \in DOMAIN store
              /\ store[t].payload = issued[t].payload
              /\ store[t].expires_at = issued[t].expires_at
    /\ (lastGet.called /\ lastGet.ok) =>
          lastGet.payload = issued[lastGet.analysis_id].payload

\* two puts were made; the entry of one has expired and was swept from the map
\* by a later call, and the other, live at its expiry instant, was returned by
\* the last get
C15_Witness ==
    /\ lastPut.called /\ lastPut.n = 2
    /\ Cardinality(DOMAIN store) = 1
    /\ lastGet.called /\ lastGet.ok
    /\ lastGet.analysis_id \in DOMAIN store
    /\ \E t \in DOMAIN issued : t \notin DOMAIN store /\ issued[t].read

-----------------------------------------------------------------------------
(* Properties of the step plan *)

Answered == resp.called /\ resp.status = 200
StoredBricks == issued[resp.analysisId].payload.bricks
StoredKey(b) == <<b.x, b.y, b.type, b.color>>
DeltaKey(b) == <<b.x, b.y, b.type, b.hex>>
OriginIn(b, bounds) ==
    /\ bounds.x <= b.x /\ b.x < bounds.x + bounds.w
    /\ bounds.y <= b.y /\ b.y < bounds.y + bounds.h

\* how many stored placements with key k have their origin in the bounds
StoredCount(bounds, k) ==
    Cardinality({i \in 1..Len(StoredBricks) :
                    StoredKey(StoredBricks[i]) = k /\ OriginIn(StoredBricks[i], bounds)})
\* how many delta placements with key k the steps of section sec_id hold
DeltaCount(sec_id, k) ==
    Cardinality({e \in (1..Len(resp.steps)) \X (1..Len(StoredBricks)) :
                    /\ resp.steps[e[1]].sectionId = sec_id
                    /\ e[2] <= Len(resp.steps[e[1]].bricks)
                    /\ DeltaKey(resp.steps[e[1]].bricks[e[2]]) = k})
PlanKeys ==
    {StoredKey(StoredBricks[i]) : i \in 1..Len(StoredBricks)}
    \cup UNION {{DeltaKey(resp.steps[s].bricks[i]) : i \in 1..Len(resp.steps[s].bricks)} :
                   s \in 1..Len(resp.steps)}

\* C7: in every answer of build_steps, for every section, the delta placements
\* of the section's steps are, as a multiset, exactly the stored placements
\* whose origin lies in the section's bounds, no step is longer than the stored
\* list, and every step belongs to a section of the answer
C7_Reconstruction ==
    Answered =>
        /\ \A s \in 1..Len(resp.steps) :
              /\ Len(resp.steps[s].bricks) <= Len(StoredBricks)
              /\ \E j \in 1..Len(resp.sections) :
                    resp.sections[j].id = resp.steps[s].sectionId
        /\ \A j \in 1..Len(resp.sections) : \A k \in PlanKeys :
              DeltaCount(resp.sections[j].id, k) = StoredCount(resp.sections[j].bounds, k)

\* an answer with several sections, one of them with a row chunk split by the cap
C7_Witness ==
    /\ Answered
    /\ Len(resp.sections) >= 2
    /\ \E s \in 1..Len(resp.steps) :
          /\ s + 1 <= Len(resp.steps)
          /\ resp.steps[s].sectionId = resp.steps[s + 1].sectionId
          /\ resp.steps[s].min_y = resp.steps[s + 1].min_y
          /\ Len(resp.steps[s].bricks) = MinStepCap
    /\ \E s \in 1..Len(resp.steps) : resp.steps[s].sectionId # resp.steps[1].sectionId

\* the steps of the answer before step s that belong to the same section
EarlierInSection(s) ==
    {q \in 1..(s - 1) : resp.steps[q].sectionId = resp.steps[s].sectionId}

\* C16: in every answer of build_steps the steps are numbered per section: the
\* first step of each section has index 1 and the indices of one section run
\* 1, 2, 3, ... without gaps, so that sections do not share a numbering space
C16_PerSectionNumbering ==
    Answered =>
        \A s \in 1..Len(resp.steps) :
            resp.steps[s].index = 1 + Cardinality(EarlierInSection(s))

-----------------------------------------------------------------------------
(* Properties of the step generator *)

\* C17: every step generate_steps_by_rows returns holds at most
\* max_placements_per_step placements, whatever cap >= 1 the caller passed and
\* whatever the placement list
C17_CapHonoured ==
    (gen.called /\ gen.max_placements_per_step >= 1) =>
        \A s \in 1..Len(gen.steps) :
            Len(gen.steps[s].placements) <= gen.max_placements_per_step

\* from the floor of the cap upwards the cap is the limit of every step, and
\* below it the floor is
CapFloorHonoured ==
    gen.called =>
        \A s \in 1..Len(gen.steps) :
            Len(gen.steps[s].placements)
                <= Max(MinStepCap, gen.max_placements_per_step)

-----------------------------------------------------------------------------
(* Properties of the analyze phase *)

\* the stored placement b covers the cell (x, y)
StoredCovers(b, x, y) ==
    /\ b.x <= x /\ x < b.x + parse_brick_type_dims(b.type)[1]
    /\ b.y <= y /\ y < b.y + parse_brick_type_dims(b.type)[2]

\* the 2x2 block of cells at the first scan cell has colour c in the record
BlockAtOrigin(record, c) ==
    /\ record.width >= 2 /\ record.height >= 2
    /\ \A x \in 0..1, y \in 0..1 :
          \E i \in 1..Len(record.bricks) :
              StoredCovers(record.bricks[i], x, y) /\ record.bricks[i].color = c

\* the record was stored for a request of 2x2 pieces over a grid with a
\* same-colour 2x2 block at the first scan cell
Asked2x2(record) ==
    /\ Contains(record.options.brickTypes, s2x2)
    /\ \E i \in 1..Len(record.bricks) : BlockAtOrigin(record, record.bricks[i].color)

\* C18: analyze_guide tiles with the candidates of the requested shapes: when
\* 2x2 is requested and the grid has a same-colour 2x2 block at the first scan
\* cell, the placements stored in the cache include a piece larger than 1x1
C18_RequestedShapesUsed ==
    \A t \in DOMAIN store :
        Asked2x2(store[t].payload) =>
            \E i \in 1..Len(store[t].payload.bricks) :
                store[t].payload.bricks[i].type # s1x1

-----------------------------------------------------------------------------
(* Properties of the sections *)

PlanWidth == issued[resp.analysisId].payload.width
PlanHeight == issued[resp.analysisId].payload.height

\* the cell (x, y) lies in the bounds, both intervals half-open
CellIn(x, y, bounds) ==
    /\ bounds.x <= x /\ x < bounds.x + bounds.w
    /\ bounds.y <= y /\ y < bounds.y + bounds.h

\* the sections holding the cell (x, y)
SectionsOf(x, y) ==
    {j \in 1..Len(resp.sections) : CellIn(x, y, resp.sections[j].bounds)}

\* every section is a non-empty rectangle inside the grid, and every cell of
\* the grid lies in exactly one section
SectionsPartition ==
    /\ \A j \in 1..Len(resp.sections) :
          /\ resp.sections[j].bounds.w > 0 /\ resp.sections[j].bounds.h > 0
          /\ resp.sections[j].bounds.x >= 0 /\ resp.sections[j].bounds.y >= 0
          /\ resp.sections[j].bounds.x + resp.sections[j].bounds.w <= PlanWidth
          /\ resp.sections[j].bounds.y + resp.sections[j].bounds.h <= PlanHeight
    /\ \A x \in 0..(PlanWidth - 1), y \in 0..(PlanHeight - 1) :
          Cardinality(SectionsOf(x, y)) = 1

SingleShape ==
    /\ Len(resp.sections) = 1
    /\ resp.sections[1].bounds = [x |-> 0, y |-> 0, w |-> PlanWidth, h |-> PlanHeight]

\* section j holds the rows from (j - 1) * rowsPerSection on: rowsPerSection of
\* them, and the last section what remains of the height
RowsShape ==
    \A j \in 1..Len(resp.sections) :
        /\ resp.sections[j].bounds.x = 0
        /\ resp.sections[j].bounds.w = PlanWidth
        /\ resp.sections[j].bounds.y = (j - 1) * resp.req.rowsPerSection
        /\ resp.sections[j].bounds.h =
              IF j < Len(resp.sections) THEN resp.req.rowsPerSection
              ELSE PlanHeight - (j - 1) * resp.req.rowsPerSection
        /\ resp.sections[j].bounds.h <= resp.req.rowsPerSection

\* every section starts at the origin or at the midpoint on each axis and
\* reaches the midpoint or the far edge; only the quadrants of size zero are
\* left out
QuadrantsShape ==
    /\ \A j \in 1..Len(resp.sections) :
          /\ resp.sections[j].bounds.x \in {0, PlanWidth \div 2}
          /\ resp.sections[j].bounds.y \in {0, PlanHeight \div 2}
          /\ resp.sections[j].bounds.x + resp.sections[j].bounds.w
                \in {PlanWidth \div 2, PlanWidth}
          /\ resp.sections[j].bounds.y + resp.sections[j].bounds.h
                \in {PlanHeight \div 2, PlanHeight}
    /\ Len(resp.sections) = (IF PlanWidth >= 2 THEN 2 ELSE 1)
                              * (IF PlanHeight >= 2 THEN 2 ELSE 1)

\* C19: for every grid and section mode the sections of an answer are pairwise
\* disjoint and cover exactly the grid; "single" is one section over the whole
\* grid, "rows" is bands of rowsPerSection rows with the last one truncated,
\* "quadrants" splits both axes at their midpoints and omits empty quadrants
C19_SectionsPartitionGrid ==
    Answered =>
        /\ SectionsPartition
        /\ resp.req.sectionMode = "single" => SingleShape
        /\ resp.req.sectionMode = "rows" => RowsShape
        /\ resp.req.sectionMode = "quadrants" => QuadrantsShape

\* an answer in rows mode whose last section is truncated
C19_Witness ==
    /\ Answered
    /\ resp.req.sectionMode = "rows"
    /\ Len(resp.sections) >= 2
    /\ resp.sections[Len(resp.sections)].bounds.h < resp.req.rowsPerSection

-----------------------------------------------------------------------------
(* Properties of section membership *)

\* the bounds of the section a step belongs to
BoundsOfStep(s) ==
    resp.sections[CHOOSE j \in 1..Len(resp.sections) :
                      resp.sections[j].id = resp.steps[s].sectionId].bounds

\* the keys of the delta placements in the steps of section sec_id
KeysOfSection(sec_id) ==
    UNION {{DeltaKey(resp.steps[s].bricks[i]) : i \in 1..Len(resp.steps[s].bricks)} :
               s \in {q \in 1..Len(resp.steps) : resp.steps[q].sectionId = sec_id}}

\* C20: a placement belongs to the section whose half-open bounds hold its
\* origin; every stored placement with its origin inside the grid belongs to
\* exactly one section, and no placement is in the steps of two sections
C20_OneSectionPerPlacement ==
    Answered =>
        /\ \A i \in 1..Len(StoredBricks) :
              OriginIn(StoredBricks[i],
                       [x |-> 0, y |-> 0, w |-> PlanWidth, h |-> PlanHeight])
                  => Cardinality({j \in 1..Len(resp.sections) :
                                    OriginIn(StoredBricks[i], resp.sections[j].bounds)}) = 1
        /\ \A s \in 1..Len(resp.steps) : \A i \in 1..Len(resp.steps[s].bricks) :
              OriginIn(resp.steps[s].bricks[i], BoundsOfStep(s))
        /\ \A j, k \in 1..Len(resp.sections) :
              j # k => KeysOfSection(resp.sections[j].id)
                           \cap KeysOfSection(resp.sections[k].id) = {}

\* an answer with steps in two sections, one of them holding a placement whose
\* origin is on the edge it shares with the section before it
C20_Witness ==
    /\ Answered
    /\ \E s, q \in 1..Len(resp.steps) :
          /\ resp.steps[s].sectionId # resp.steps[q].sectionId
          /\ \E i \in 1..Len(resp.steps[s].bricks) :
                /\ resp.steps[s].bricks[i].y = BoundsOfStep(s).y
                /\ resp.steps[s].bricks[i].y = BoundsOfStep(q).y + BoundsOfStep(q).h

-----------------------------------------------------------------------------
(* Properties of the parts summary *)

RECURSIVE SumCounts(_)
SumCounts(summary) ==
    IF summary = <<>> THEN 0 ELSE Head(summary).count + SumCounts(Tail(summary))

\* the delta bricks of a step with the given type and hex
DeltaWith(step, type, hex) ==
    {i \in 1..Len(step.bricks) : step.bricks[i].type = type /\ step.bricks[i].hex = hex}

\* the summary groups exactly the bricks of the step
SummaryOfDelta(step) ==
    /\ \A e \in 1..Len(step.partsSummary) :
          /\ step.partsSummary[e].count
                = Cardinality(DeltaWith(step, step.partsSummary[e].type,
                                        step.partsSummary[e].hex))
          /\ step.partsSummary[e].count >= 1
    /\ \A e, f \in 1..Len(step.partsSummary) :
          (/\ step.partsSummary[e].type = step.partsSummary[f].type
           /\ step.partsSummary[e].hex = step.partsSummary[f].hex) => e = f
    /\ \A i \in 1..Len(step.bricks) :
          \E e \in 1..Len(step.partsSummary) :
              /\ step.partsSummary[e].type = step.bricks[i].type
              /\ step.partsSummary[e].hex = step.bricks[i].hex
    /\ SumCounts(step.partsSummary) = Len(step.bricks)

\* C21: the partsSummary of every build step has one entry per distinct
\* (type, hex) pair of the step's delta bricks, each count is the number of
\* delta bricks with that pair, and the counts add up to the size of the delta
C21_PartsSummaryOfDelta ==
    Answered => \A s \in 1..Len(resp.steps) : SummaryOfDelta(resp.steps[s])

\* a step of two colours, one of them on several bricks, in a section that
\* has a further step
C21_Witness ==
    /\ Answered
    /\ \E s, q \in 1..Len(resp.steps) :
          /\ s # q
          /\ resp.steps[s].sectionId = resp.steps[q].sectionId
          /\ Len(resp.steps[s].partsSummary) = 2
          /\ resp.steps[s].partsSummary[1].count >= 2

-----------------------------------------------------------------------------
(* Properties of the inventory and palette lists *)

\* entry a of the palette goes before entry b: more bricks, or as many and a
\* smaller colour
PaletteBefore(a, b) ==
    \/ a.count > b.count
    \/ a.count = b.count /\ StrLess(a.color, b.color)

\* entry a of the inventory goes before entry b: more bricks, or as many and
\* a smaller (type, colour)
InventoryBefore(a, b) ==
    \/ a.count > b.count
    \/ a.count = b.count /\ StrLess(a.type, b.type)
    \/ a.count = b.count /\ a.type = b.type /\ StrLess(a.color, b.color)

Ordered(list, i, j, isPalette) ==
    IF isPalette THEN PaletteBefore(list[i], list[j]) ELSE InventoryBefore(list[i], list[j])

\* C22: the inventory and the palette of a finished analysis are sorted by
\* count descending, entries of equal count by shape type and then colour
C22_ListsSortedWithTieBreak ==
    pc = "done" =>
        /\ \A i, j \in 1..Len(PaletteOf(bricks)) :
              i < j => Ordered(PaletteOf(bricks), i, j, TRUE)
        /\ \A i, j \in 1..Len(InventoryOf(bricks)) :
              i < j => Ordered(InventoryOf(bricks), i, j, FALSE)

-----------------------------------------------------------------------------
(* Properties of the candidate list *)

\* the candidates in the order the loop of build_candidates appended them
Inserted == CandidatesLoop(normalize_brick_types(brick_types), allow_rotate, <<>>)
InsertedAt(c) == CHOOSE i \in 1..Len(Inserted) : Inserted[i].w = c.w /\ Inserted[i].h = c.h

\* candidate a goes before candidate b: larger area, or the same area and a
\* longer longest side, or both the same and a appended first
CandidateBefore(a, b) ==
    \/ a.area > b.area
    \/ a.area = b.area /\ Max(a.w, a.h) > Max(b.w, b.h)
    \/ a.area = b.area /\ Max(a.w, a.h) = Max(b.w, b.h) /\ InsertedAt(a) < InsertedAt(b)

\* C23: the candidate list has no two entries of the same (w, h) and is ordered
\* by area descending, then by the longer side descending, then by insertion
\* order; among the candidates of area 4 both orientations of 1x4 come before 2x2
C23_CandidateOrder ==
    Scanning =>
        /\ \A i, j \in 1..Len(candidates) :
              (candidates[i].w = candidates[j].w /\ candidates[i].h = candidates[j].h)
                  => i = j
        /\ \A i, j \in 1..Len(candidates) :
              i < j => CandidateBefore(candidates[i], candidates[j])

-----------------------------------------------------------------------------
(* Properties of the fallback of the tiling loop *)

\* the loop is about to visit a cell no placement covers yet
AtFreeCell == pc = "scan" /\ ~occ[sy + 1][sx + 1]

\* the candidate loop places a piece at the cell about to be visited
CandidatePlaced ==
    FirstPlaceable(colors_grid, candidates, occ, sx, sy, colors_grid[sy + 1][sx + 1]) # 0

\* C24: whatever shape list was requested, the candidate list holds the 1x1
\* shape, and at every uncovered cell the loop visits some candidate can be
\* placed: the branch taken when no candidate was placed is never entered
C24_FallbackUnreachable ==
    /\ Scanning => \E i \in 1..Len(candidates) : candidates[i].w = 1 /\ candidates[i].h = 1
    /\ AtFreeCell => CandidatePlaced

\* a request without 1x1, at an uncovered cell where only the 1x1 candidate
\* can be placed
C24_Witness ==
    /\ AtFreeCell
    /\ brick_types = <<s2x2>>
    /\ candidates[FirstPlaceable(colors_grid, candidates, occ, sx, sy,
                                  colors_grid[sy + 1][sx + 1])].type = s1x1

-----------------------------------------------------------------------------
(* Properties of the row chunks *)

StepYs(step) == {step.placements[i].y : i \in 1..Len(step.placements)}
MaxY(step) == CHOOSE y \in StepYs(step) : \A z \in StepYs(step) : z <= y
MinY(step) == CHOOSE y \in StepYs(step) : \A z \in StepYs(step) : y <= z

\* every grid row between the first and the last origin of the list holds one
EveryRowHasOrigin ==
    \A y \in 0..(2 * MaxPlanH) :
        (\E i, j \in 1..Len(gen.placements) :
             gen.placements[i].y < y /\ y < gen.placements[j].y)
            => \E i \in 1..Len(gen.placements) : gen.placements[i].y = y

\* every step spans fewer than rows_per_step grid rows
StepsSpanRowsPerStep ==
    \A s \in 1..Len(gen.steps) :
        MaxY(gen.steps[s]) - MinY(gen.steps[s]) < gen.rows_per_step

\* C25: every step generate_steps_by_rows returns draws its placements from
\* one chunk of rows_per_step consecutive grid rows, also when some grid rows
\* hold no placement origin
C25_ChunkOfConsecutiveRows ==
    (gen.called /\ gen.rows_per_step >= 1) => StepsSpanRowsPerStep

\* where every row holds an origin the steps span fewer than rows_per_step rows
ChunksOfFullRows ==
    (gen.called /\ gen.rows_per_step >= 1 /\ EveryRowHasOrigin) => StepsSpanRowsPerStep

-----------------------------------------------------------------------------
(* Properties of the order of the steps *)

\* the placements of the steps, one step after the other
RECURSIVE ConcatSteps(_)
ConcatSteps(steps) ==
    IF steps = <<>> THEN <<>>
    ELSE Head(steps).placements \o ConcatSteps(Tail(steps))

\* ascending (y, x)
OriginBefore(p, q) == p.y < q.y \/ (p.y = q.y /\ p.x < q.x)

InOriginOrder(list) ==
    \A i, j \in 1..Len(list) : i < j => OriginBefore(list[i], list[j])

SameElements(a, b) ==
    /\ Len(a) = Len(b)
    /\ \A i \in 1..Len(a) : \E j \in 1..Len(b) : b[j] = a[i]

\* C26: the placements of the steps of one call, taken in step order, are the
\* placements handed in, in ascending (y, x) order; a chunk split by the cap
\* keeps that order, each step being a contiguous run of the sorted list
C26_StepsInOriginOrder ==
    gen.called =>
        /\ SameElements(gen.placements, ConcatSteps(gen.steps))
        /\ InOriginOrder(ConcatSteps(gen.steps))

\* a list handed in out of order whose chunk of rows is split by the cap
C26_Witness ==
    /\ gen.called
    /\ ~InOriginOrder(gen.placements)
    /\ \E s \in 1..Len(gen.steps) :
          /\ s + 1 <= Len(gen.steps)
          /\ gen.steps[s].min_y = gen.steps[s + 1].min_y
          /\ Len(gen.steps[s].placements) = MinStepCap

\* the same order in the answers of build_steps: the delta bricks of the steps
\* of one section, in step order, ascend in (y, x)
DeltaInOriginOrder ==
    Answered =>
        \A s, q \in 1..Len(resp.steps) :
            \A i \in 1..Len(resp.steps[s].bricks), j \in 1..Len(resp.steps[q].bricks) :
                (/\ resp.steps[s].sectionId = resp.steps[q].sectionId
                 /\ (s < q \/ (s = q /\ i < j)))
                    => OriginBefore(resp.steps[s].bricks[i], resp.steps[q].bricks[j])

-----------------------------------------------------------------------------
(* Properties of the emitted steps *)

\* the stored placements with their origin in the bounds
MembersOf(bounds) ==
    {i \in 1..Len(StoredBricks) : OriginIn(StoredBricks[i], bounds)}

\* C27: no build step is empty, whatever the chunking parameters: every step
\* of an answer holds at least one delta brick, and a section without member
\* placements has no step
C27_NoEmptyStep ==
    Answered =>
        /\ \A s \in 1..Len(resp.steps) : Len(resp.steps[s].bricks) >= 1
        /\ \A j \in 1..Len(resp.sections) :
              MembersOf(resp.sections[j].bounds) = {}
                  => \A s \in 1..Len(resp.steps) :
                         resp.steps[s].sectionId # resp.sections[j].id

\* an answer whose chunk of rows holds exactly as many placements as the cap:
\* one full step and no part after it
C27_Witness ==
    /\ Answered
    /\ resp.req.maxPlacementsPerStep = MinStepCap
    /\ \E s \in 1..Len(resp.steps) :
          /\ Len(resp.steps[s].bricks) = MinStepCap
          /\ (s = Len(resp.steps) \/ resp.steps[s + 1].min_y # resp.steps[s].min_y)

\* the generator returns no step for no placements, and never an empty step
NoEmptyRawStep ==
    gen.called =>
        /\ gen.placements = <<>> => gen.steps = <<>>
        /\ \A s \in 1..Len(gen.steps) : Len(gen.steps[s].placements) >= 1

-----------------------------------------------------------------------------
(* Properties of the frame of the store calls *)

\* the entries of s that are not expired at the reading t of the clock
Unexpired(s, t) == [k \in {k \in DOMAIN s : s[k].expires_at >= t} |-> s[k]]

\* a step is a put exactly when it counts one more put, and only a step that
\* does not can be a get
PutCall == lastPut' # lastPut /\ Put
GetCall == lastPut' = lastPut /\ Get

\* C28 as stated: after a put or a get the store holds exactly the entries
\* that were present and not expired when the call ran its cleanup, plus the
\* new entry in the case of put
C28_ExactlyUnexpiredAtCleanup ==
    [][ /\ GetCall => store' = Unexpired(store, now)
        /\ PutCall => store' = SetItem(Unexpired(store, now), lastPut'.analysis_id,
                                       store'[lastPut'.analysis_id]) ]_vars

\* C28: entries leave the store only by expiry. After a get the store holds
\* the entries that were present and not expired when the call ran its
\* cleanup, unchanged, except that the requested entry is gone when the call's
\* own expiry test, at a later reading of the clock, found it expired and the
\* call failed; after a put it holds those entries, unchanged, and the new one
\* under a token that was not in use
C28_LeaveOnlyByExpiry ==
    [][ /\ GetCall =>
              /\ DOMAIN store' \subseteq DOMAIN Unexpired(store, now)
              /\ \A k \in DOMAIN store' : store'[k] = store[k]
              /\ \A k \in DOMAIN Unexpired(store, now) \ DOMAIN store' :
                    /\ k = lastGet'.analysis_id
                    /\ ~lastGet'.ok
                    /\ store[k].expires_at < now'
        /\ PutCall =>
              /\ lastPut'.analysis_id \notin DOMAIN store
              /\ store' = SetItem(Unexpired(store, now), lastPut'.analysis_id,
                                  store'[lastPut'.analysis_id]) ]_vars

\* after a failed get the store has lost an entry and kept another, and a
\* second put has been made
C28_Witness ==
    /\ lastGet.called /\ ~lastGet.ok
    /\ lastGet.analysis_id \in DOMAIN issued \ DOMAIN store
    /\ lastPut.called /\ lastPut.n = 2
    /\ \E k \in DOMAIN store : k # lastGet.analysis_id

-----------------------------------------------------------------------------
(* Properties of the stored record *)

\* the record under token t is the one put stored
AsPut(t) ==
    /\ store[t].payload.width = issued[t].payload.width
    /\ store[t].payload.height = issued[t].payload.height
    /\ store[t].payload.bricks = issued[t].payload.bricks
    /\ store[t].expires_at = issued[t].expires_at

\* C29: a stored record is never changed: whatever build_steps calls were
\* made on its token, its width, height, bricks and expiry are those put
\* stored, and a second build_steps call with the same parameters returns the
\* sections and steps of the first
C29_RecordNeverMutated ==
    /\ \A t \in DOMAIN store : AsPut(t)
    /\ (resp.called /\ resp.calls = 2) =>
          /\ resp.status = 200
          /\ resp.sections = resp.first.sections
          /\ resp.steps = resp.first.steps

\* a second answer, of several steps in several sections, for a record still
\* in the store
C29_Witness ==
    /\ resp.called /\ resp.calls = 2 /\ resp.status = 200
    /\ resp.analysisId \in DOMAIN store
    /\ Len(resp.sections) >= 2
    /\ Len(resp.steps) > Len(resp.sections)

-----------------------------------------------------------------------------
(* Properties of expiry *)

\* C30: expiry is permanent: once a get of a token that put returned has
\* failed, every later get of that token fails, whatever puts and gets are made
\* in between; the clock of the model never goes back
C30_ExpiryPermanent ==
    (lastGet.called /\ lastGet.failed_before) => ~lastGet.ok

\* a second failing get of a token, after a put made since the token expired,
\* while the entry of that put is still in the store
C30_Witness ==
    /\ lastGet.called /\ lastGet.failed_before /\ ~lastGet.ok
    /\ lastPut.called /\ lastPut.n = 2
    /\ lastPut.analysis_id \in DOMAIN store
    /\ lastPut.analysis_id # lastGet.analysis_id
    /\ lastPut.at > issued[lastGet.analysis_id].expires_at

====
